---- MODULE Spec2Model ----
(***************************************************************************)
(* Model of the `#[display]` attribute macro of the displaystr crate       *)
(* (src/src/lib.rs).  The macro is a single pass over two token streams    *)
(* (the attribute arguments and the annotated item); the model follows     *)
(* that pass stage by stage and variant by variant.                        *)
(***************************************************************************)
EXTENDS Integers, Sequences, FiniteSets, TLC

(***************************************************************************)
(* Bounds                                                                  *)
(***************************************************************************)
\* largest number of variants in an enum body of the explored inputs
MaxVariants == 2

(***************************************************************************)
(* proc_macro token trees.  A token is a record                            *)
(*   k  : "ident" | "punct" | "lit" | "group"                              *)
(*   s  : identifier text, punctuation character, or group delimiter       *)
(*   j  : spacing of a punctuation mark ("Alone" | "Joint")                *)
(*   v  : source text of a literal, one character (or run of ordinary      *)
(*        characters) per element                                          *)
(*   sp : span, a pair of a position and a role; call_site is the span of  *)
(*        the macro invocation                                             *)
(*   g  : the stream of a group                                            *)
(***************************************************************************)
call_site == <<0, "call_site">>

Ident(s, sp) == [k |-> "ident", s |-> s, j |-> "", v |-> <<>>, sp |-> sp, g |-> <<>>]
Punct(c, j, sp) == [k |-> "punct", s |-> c, j |-> j, v |-> <<>>, sp |-> sp, g |-> <<>>]
Literal(v, sp) == [k |-> "lit", s |-> "", j |-> "", v |-> v, sp |-> sp, g |-> <<>>]
Group(d, g, sp) == [k |-> "group", s |-> d, j |-> "", v |-> <<>>, sp |-> sp, g |-> g]

IsPunct(t, c) == t.k = "punct" /\ t.s = c
IsIdent(t, s) == t.k = "ident" /\ t.s = s
IsGroup(t, d) == t.k = "group" /\ t.s = d

\* Iterator::next and Peekable::peek on a stream held as a sequence: the
\* Option is a sequence of length 0 or 1.
Next1(s) == IF s = <<>> THEN <<>> ELSE <<Head(s)>>
Rest(s) == IF s = <<>> THEN <<>> ELSE Tail(s)

Quote == "\""
Backslash == "\\"
\* the grave accent character, which a TLA+ string cannot hold
Backtick == "<grave>"

\* The escaping done by Literal::string on the content it is given.
RECURSIVE Escape(_)
Escape(content) ==
    IF content = <<>> THEN <<>>
    ELSE IF Head(content) \in {Quote, Backslash}
         THEN <<Backslash, Head(content)>> \o Escape(Tail(content))
         ELSE <<Head(content)>> \o Escape(Tail(content))

\* Literal::string(content): a string literal token whose value is content.
LiteralString(content) == Literal(<<Quote>> \o Escape(content) \o <<Quote>>, call_site)

\* Literal::to_string(): the literal as written in the source, with its
\* quotes and escapes.
LiteralToString(lit) == lit.v

\* The value a string literal denotes: its source text without the quotes
\* and with the escapes undone.
RECURSIVE Unescape(_)
Unescape(text) ==
    IF text = <<>> THEN <<>>
    ELSE IF Head(text) = Backslash /\ Len(text) > 1
         THEN <<text[2]>> \o Unescape(Tail(Tail(text)))
         ELSE <<Head(text)>> \o Unescape(Tail(text))

IsStringLiteral(t) ==
    t.k = "lit" /\ Len(t.v) >= 2 /\ t.v[1] = Quote /\ t.v[Len(t.v)] = Quote

StringValue(lit) == Unescape(SubSeq(lit.v, 2, Len(lit.v) - 1))

(***************************************************************************)
(* CompileError and its IntoIterator: the three tokens of a compile_error  *)
(* invocation around the message, every token at the span of the error.    *)
(***************************************************************************)
WithSpan(t, sp) == [t EXCEPT !.sp = sp]

CompileError(span, message) ==
    << Ident("compile_error", span),
       Punct("!", "Alone", span),
       Group("brace", <<WithSpan(LiteralString(message), span)>>, span) >>

MsgUnexpectedToken == <<"unexpected token">>
MsgExpectedEnum == <<"expected an ", Backtick, "enum", Backtick, " item">>
MsgExpectedDiscriminant ==
    <<"expected this variant to have a string discriminant", ": ", Backtick,
      "= ", Quote, "...", Quote, Backtick>>
MsgExpectedString == <<"expected string literal">>

(***************************************************************************)
(* The explored inputs.  An input is described by a record                 *)
(*   args     : which attribute arguments the macro is called with         *)
(*   header   : which item header precedes the body                        *)
(*   variants : the variants of the enum body, each a record               *)
(*              [pre, fields, tmpl] of keys into the tables below          *)
(*   trailing : whether the last variant is followed by a comma            *)
(* and rendered to the token streams the compiler hands to the macro.      *)
(* Every rendered item but two is one rustc accepts syntactically, as the  *)
(* input of an attribute macro is; the headers "unclosed" and "bodiless"   *)
(* are token sequences that end early, which `display` takes like any      *)
(* other TokenStream.  Variant i is named V<i>; the spans of its tokens    *)
(* are SpanOf(i, role), those of the other tokens SpanOf(0, _).            *)
(***************************************************************************)
SpanOf(i, role) == <<i, role>>

RoleIdent == "identifier"
RoleEq == "eq"
RoleTemplate == "template"
RoleInner == "inner"
RoleOther == "other"

Word(s, i) == Ident(s, SpanOf(i, RoleOther))
Mark(c, i) == Punct(c, "Alone", SpanOf(i, RoleOther))
PathSep(i) == <<Punct(":", "Joint", SpanOf(i, RoleOther)), Mark(":", i)>>
Attribute(name, i) ==
    <<Mark("#", i), Group("bracket", <<Word(name, i)>>, SpanOf(i, RoleOther))>>

ArgKeys == {"none", "doc", "doc_extra", "other", "other_doc"}

ArgTokens(a) ==
    CASE a = "none" -> <<>>
      [] a = "doc" -> <<Ident("doc", SpanOf(0, "first"))>>
      [] a = "doc_extra" ->
            <<Ident("doc", SpanOf(0, "first")), Ident("hidden", SpanOf(0, "second"))>>
      [] a = "other" -> <<Ident("docs", SpanOf(0, "first"))>>
      [] a = "other_doc" ->
            <<Ident("hidden", SpanOf(0, "first")), Ident("doc", SpanOf(0, "second"))>>

HeaderKeys == {"plain", "full", "struct", "nested", "unclosed", "bodiless"}

\* the generic parameter list of a header, from `<` to the `>` that closes
\* it (to the end of the tokens when nothing closes it)
HeaderGenerics(h) ==
    CASE h = "full" -> <<Mark("<", 0), Word("T", 0), Mark(">", 0)>>
         \* <T: Into<u8>>
      [] h = "nested" ->
            <<Mark("<", 0), Word("T", 0), Mark(":", 0), Word("Into", 0), Mark("<", 0),
              Word("u8", 0), Punct(">", "Joint", SpanOf(0, RoleOther)), Mark(">", 0)>>
         \* <T
      [] h = "unclosed" -> <<Mark("<", 0), Word("T", 0)>>
      [] OTHER -> <<>>

\* the tokens before the brace group of the body, and whether the item is
\* an enum
HeaderTokens(h) ==
    CASE h = "plain" -> <<Word("enum", 0), Word("E", 0)>>
      [] h = "full" ->
            Attribute("non_exhaustive", 0)
            \o <<Word("pub", 0), Group("paren", <<Word("crate", 0)>>, SpanOf(0, RoleOther)),
                 Word("enum", 0), Word("E", 0)>>
            \o HeaderGenerics(h)
            \o <<Word("where", 0), Word("T", 0), Mark(":", 0), Word("Clone", 0)>>
      [] h = "struct" ->
            Attribute("non_exhaustive", 0) \o <<Word("pub", 0), Word("struct", 0), Word("E", 0)>>

      [] h = "nested" -> <<Word("enum", 0), Word("E", 0)>> \o HeaderGenerics(h)
      [] h = "unclosed" -> <<Word("enum", 0), Word("E", 0)>> \o HeaderGenerics(h)
      [] h = "bodiless" ->
            <<Word("enum", 0), Word("E", 0),
              Word("where", 0), Word("T", 0), Mark(":", 0), Word("Clone", 0)>>

HeaderIsEnum(h) == h # "struct"

\* whether the brace group of a body follows the header
HeaderHasBody(h) == h \notin {"unclosed", "bodiless"}

PrefixKeys == {"none", "attr", "vis"}

PrefixTokens(p, i) ==
    CASE p = "none" -> <<>>
      [] p = "attr" -> Attribute("cold", i) \o Attribute("allow", i)
      [] p = "vis" ->
            Attribute("cold", i)
            \o <<Word("pub", i), Group("paren", <<Word("crate", i)>>, SpanOf(i, RoleOther))>>

\* A field group: its delimiter ("none" for a variant without one), the
\* tokens between the delimiters, the number of fields it declares and the
\* names of the fields it declares.
FieldGroup(d, toks, n, names) == [d |-> d, toks |-> toks, n |-> n, names |-> names]

PositionalKeys == {"p0", "p1", "p1c", "p2", "p2c", "pgen"}
NamedKeys == {"n0", "n1", "n1c", "n2", "n2c", "npath", "nbound", "ngen", "ngenpath"}
FieldKeys == {"unit"} \cup PositionalKeys \cup NamedKeys

FieldsOf(f, i) ==
    CASE f = "unit" -> FieldGroup("none", <<>>, 0, <<>>)
      [] f = "p0" -> FieldGroup("paren", <<>>, 0, <<>>)
      [] f = "p1" -> FieldGroup("paren", <<Word("u32", i)>>, 1, <<>>)
      [] f = "p1c" -> FieldGroup("paren", <<Word("u32", i), Mark(",", i)>>, 1, <<>>)
      [] f = "p2" ->
            FieldGroup("paren", <<Word("u32", i), Mark(",", i), Word("String", i)>>, 2, <<>>)
      [] f = "p2c" ->
            FieldGroup("paren",
                <<Word("u32", i), Mark(",", i), Word("String", i), Mark(",", i)>>, 2, <<>>)
         \* V(Map<K, V>)
      [] f = "pgen" ->
            FieldGroup("paren",
                <<Word("Map", i), Mark("<", i), Word("K", i), Mark(",", i), Word("V", i),
                  Mark(">", i)>>, 1, <<>>)
      [] f = "n0" -> FieldGroup("brace", <<>>, 0, <<>>)
      [] f = "n1" ->
            FieldGroup("brace", <<Word("first", i), Mark(":", i), Word("u32", i)>>,
                1, <<"first">>)
      [] f = "n1c" ->
            FieldGroup("brace",
                <<Word("first", i), Mark(":", i), Word("u32", i), Mark(",", i)>>,
                1, <<"first">>)
      [] f = "n2" ->
            FieldGroup("brace",
                <<Word("first", i), Mark(":", i), Word("u32", i), Mark(",", i),
                  Word("second", i), Mark(":", i), Word("String", i)>>,
                2, <<"first", "second">>)
         \* V { #[cold] pub first: u32, second: String, }
      [] f = "n2c" ->
            FieldGroup("brace",
                Attribute("cold", i)
                \o <<Word("pub", i), Word("first", i), Mark(":", i), Word("u32", i),
                     Mark(",", i), Word("second", i), Mark(":", i), Word("String", i),
                     Mark(",", i)>>,
                2, <<"first", "second">>)
         \* V { source: std::io::Error }
      [] f = "npath" ->
            FieldGroup("brace",
                <<Word("source", i), Mark(":", i), Word("std", i)>> \o PathSep(i)
                \o <<Word("io", i)>> \o PathSep(i) \o <<Word("Error", i)>>,
                1, <<"source">>)
         \* V { f: for<T: Bar> Foo<T>, g: u32 }
      [] f = "nbound" ->
            FieldGroup("brace",
                <<Word("f", i), Mark(":", i), Word("for", i), Mark("<", i), Word("T", i),
                  Mark(":", i), Word("Bar", i), Mark(">", i), Word("Foo", i), Mark("<", i),
                  Word("T", i), Mark(">", i), Mark(",", i),
                  Word("g", i), Mark(":", i), Word("u32", i)>>,
                2, <<"f", "g">>)
         \* V { map: Map<K, V>, len: u32 }
      [] f = "ngen" ->
            FieldGroup("brace",
                <<Word("map", i), Mark(":", i), Word("Map", i), Mark("<", i), Word("K", i),
                  Mark(",", i), Word("V", i), Mark(">", i), Mark(",", i),
                  Word("len", i), Mark(":", i), Word("u32", i)>>,
                2, <<"map", "len">>)
         \* V { map: Map<K, std::io::Error> }
      [] f = "ngenpath" ->
            FieldGroup("brace",
                <<Word("map", i), Mark(":", i), Word("Map", i), Mark("<", i), Word("K", i),
                  Mark(",", i), Word("std", i)>> \o PathSep(i) \o <<Word("io", i)>>
                \o PathSep(i) \o <<Word("Error", i), Mark(">", i)>>,
                1, <<"map">>)

\* A template: the tokens from `=` on, whether it has one of the two forms
\* of a template, and then its literal and its extra arguments.
Template(toks, wellformed, lit, extra) ==
    [toks |-> toks, wellformed |-> wellformed, lit |-> lit, extra |-> extra]

TemplateKeys ==
    {"none", "str", "quoted", "args", "int", "ident", "call", "group_ident", "group_empty"}

Eq(i) == Punct("=", "Alone", SpanOf(i, RoleEq))

\* "data store disconnected"
StrLit(i) == Literal(<<Quote, "data store disconnected", Quote>>, SpanOf(i, RoleTemplate))
\* "key \"{_0}\""
QuotedLit(i) ==
    Literal(<<Quote, "key ", Backslash, Quote, "{_0}", Backslash, Quote, Quote>>,
        SpanOf(i, RoleTemplate))
\* "recovered: {}"
ArgsLit(i) == Literal(<<Quote, "recovered: {}", Quote>>, SpanOf(i, RoleInner))
\* , _1.join("+")
ArgsExtra(i) ==
    <<Mark(",", i), Word("_1", i), Mark(".", i), Word("join", i),
      Group("paren", <<Literal(<<Quote, "+", Quote>>, SpanOf(i, RoleOther))>>,
          SpanOf(i, RoleOther))>>

TemplateOf(t, i) ==
    CASE t = "none" -> Template(<<>>, FALSE, <<>>, <<>>)
      [] t = "str" -> Template(<<Eq(i), StrLit(i)>>, TRUE, <<StrLit(i)>>, <<>>)
      [] t = "quoted" -> Template(<<Eq(i), QuotedLit(i)>>, TRUE, <<QuotedLit(i)>>, <<>>)
      [] t = "args" ->
            Template(<<Eq(i), Group("paren", <<ArgsLit(i)>> \o ArgsExtra(i),
                                   SpanOf(i, RoleTemplate))>>,
                TRUE, <<ArgsLit(i)>>, ArgsExtra(i))
         \* = 5
      [] t = "int" ->
            Template(<<Eq(i), Literal(<<"5">>, SpanOf(i, RoleTemplate))>>, FALSE, <<>>, <<>>)
         \* = MESSAGE
      [] t = "ident" ->
            Template(<<Eq(i), Ident("MESSAGE", SpanOf(i, RoleTemplate))>>, FALSE, <<>>, <<>>)
         \* = message()
      [] t = "call" ->
            Template(<<Eq(i), Ident("message", SpanOf(i, RoleTemplate)),
                       Group("paren", <<>>, SpanOf(i, RoleOther))>>, FALSE, <<>>, <<>>)
         \* = (MESSAGE, "data store disconnected")
      [] t = "group_ident" ->
            Template(<<Eq(i), Group("paren",
                                   <<Ident("MESSAGE", SpanOf(i, RoleInner)), Mark(",", i),
                                     StrLit(i)>>, SpanOf(i, RoleTemplate))>>,
                FALSE, <<>>, <<>>)
         \* = ()
      [] t = "group_empty" ->
            Template(<<Eq(i), Group("paren", <<>>, SpanOf(i, RoleTemplate))>>,
                FALSE, <<>>, <<>>)

VariantName(i) == "V" \o ToString(i)
VariantIdent(i) == Ident(VariantName(i), SpanOf(i, RoleIdent))

\* the field group of variant i as a token, if it has one
FieldGroupToken(f, i) ==
    IF FieldsOf(f, i).d = "none" THEN <<>>
    ELSE <<Group(FieldsOf(f, i).d, FieldsOf(f, i).toks, SpanOf(i, RoleOther))>>

\* variant i without its template: what the cleaned declaration keeps
VariantKept(var, i) ==
    PrefixTokens(var.pre, i) \o <<VariantIdent(i)>> \o FieldGroupToken(var.fields, i)

VariantTokens(var, i) == VariantKept(var, i) \o TemplateOf(var.tmpl, i).toks

Comma(i) == Mark(",", i)

RECURSIVE BodyFrom(_, _, _)
BodyFrom(list, i, trailing) ==
    IF i > Len(list) THEN <<>>
    ELSE VariantTokens(list[i], i)
         \o (IF i < Len(list) \/ trailing THEN <<Comma(i)>> ELSE <<>>)
         \o BodyFrom(list, i + 1, trailing)

BodyTokens(d) == BodyFrom(d.variants, 1, d.trailing)

ItemTokens(d) ==
    HeaderTokens(d.header)
    \o (IF HeaderHasBody(d.header)
        THEN <<Group("brace", BodyTokens(d), SpanOf(0, RoleOther))>>
        ELSE <<>>)

\* The variants the bodies are built from: every prefix, every field group
\* and every template occurs, not every combination of them.
VariantKinds ==
    {[pre |-> p, fields |-> "unit", tmpl |-> "str"] : p \in PrefixKeys}
    \cup {[pre |-> "none", fields |-> f, tmpl |-> "str"] : f \in FieldKeys}
    \cup {[pre |-> "none", fields |-> "unit", tmpl |-> t] : t \in TemplateKeys}
    \cup {[pre |-> "none", fields |-> f, tmpl |-> "none"] : f \in {"p1", "n1"}}
    \cup {[pre |-> "vis", fields |-> f, tmpl |-> "args"] : f \in {"p2c", "n2c"}}

\* The variants that may occur any number of times in a body: a well-formed
\* one, a unit variant without template and a tuple variant without
\* template.  A body holds at most one variant of another kind.
CommonKinds ==
    {[pre |-> "none", fields |-> "unit", tmpl |-> "str"],
     [pre |-> "none", fields |-> "unit", tmpl |-> "none"],
     [pre |-> "none", fields |-> "p1", tmpl |-> "none"]}

StudiedKinds == VariantKinds \ CommonKinds

VariantListsOf(n) ==
    [1..n -> CommonKinds]
    \cup UNION {{[common EXCEPT ![i] = studied] :
                    common \in [1..n -> CommonKinds], studied \in StudiedKinds} :
                i \in 1..n}

VariantLists == UNION {VariantListsOf(n) : n \in 0..MaxVariants}

\* The attribute arguments and headers explored together.
Scenarios ==
    (ArgKeys \X {"plain"}) \cup ({"doc"} \X {"full"}) \cup ({"none", "other"} \X {"struct"})
    \cup ({"none"} \X {"nested", "unclosed", "bodiless"})

\* A variant list has one rendering per position of the last comma, and an
\* item that is not an enum or has no body is explored with an empty body
\* only.
InputsOf(sc) ==
    UNION {{[args |-> sc[1], header |-> sc[2], variants |-> vs, trailing |-> tr] :
                tr \in IF vs = <<>> THEN {FALSE} ELSE BOOLEAN} :
           vs \in IF HeaderIsEnum(sc[2]) /\ HeaderHasBody(sc[2]) THEN VariantLists ELSE {<<>>}}

Inputs == UNION {InputsOf(sc) : sc \in Scenarios}

(***************************************************************************)
(* State of one invocation of `display`                                    *)
(***************************************************************************)
VARIABLES
    decl,                   \* the input being processed (never changes)
    previous,               \* the cleaned declaration an earlier invocation
                            \* returned for the same input, if there was one
    pc,                     \* position in `display`
    args,                   \* the attribute arguments not yet consumed
    ts,                     \* the item tokens not yet consumed
    generate_doc_comments,
    compile_errors,
    output,                 \* everything up to and including `enum`
    enum_ident,             \* Option: the name of the enum
    generics,
    where_clause,
    enum_body,              \* the tokens of the body not yet consumed
    variants,               \* the variants of the cleaned declaration
    arms,                   \* the arms of the generated match
    response                \* the token stream returned to the compiler

vars ==
    <<decl, previous, pc, args, ts, generate_doc_comments, compile_errors, output, enum_ident,
      generics, where_clause, enum_body, variants, arms, response>>

Init ==
    /\ decl \in Inputs
    /\ previous = <<>>
    /\ pc = "args"
    /\ args = ArgTokens(decl.args)
    /\ ts = ItemTokens(decl)
    /\ generate_doc_comments = FALSE
    /\ compile_errors = <<>>
    /\ output = <<>>
    /\ enum_ident = <<>>
    /\ generics = <<>>
    /\ where_clause = <<>>
    /\ enum_body = <<>>
    /\ variants = <<>>
    /\ arms = <<>>
    /\ response = <<>>

(***************************************************************************)
(* The attribute arguments (lib.rs 181-195)                                *)
(***************************************************************************)
\* the value of generate_doc_comments and the errors pushed while reading
\* the arguments
\* ParsedArgs without the look at what follows `doc`
ParsedArgsTrailingIgnored(a) ==
    IF a = <<>> THEN [doc |-> FALSE, errors |-> <<>>]
    ELSE IF IsIdent(Head(a), "doc")
         THEN [doc |-> TRUE, errors |-> <<>>]
         ELSE [doc |-> FALSE, errors |-> CompileError(Head(a).sp, MsgUnexpectedToken)]

ParsedArgs(a) ==
    IF a = <<>> THEN [doc |-> FALSE, errors |-> <<>>]
    ELSE IF IsIdent(Head(a), "doc")
         THEN [doc |-> TRUE,
               errors |-> IF Tail(a) # <<>>
                          THEN CompileError(Head(Tail(a)).sp, MsgUnexpectedToken)
                          ELSE <<>>]
         ELSE [doc |-> FALSE, errors |-> CompileError(Head(a).sp, MsgUnexpectedToken)]

\* how many arguments reading them takes off the iterator
ArgsConsumed(a) ==
    IF a = <<>> THEN 0
    ELSE IF IsIdent(Head(a), "doc") /\ Tail(a) # <<>> THEN 2 ELSE 1

ParseArgs ==
    /\ pc = "args"
    /\ generate_doc_comments' = ParsedArgs(args).doc
    /\ compile_errors' = compile_errors \o ParsedArgs(args).errors
    /\ args' = SubSeq(args, ArgsConsumed(args) + 1, Len(args))
    /\ pc' = "header"
    /\ UNCHANGED <<decl, previous, ts, output, enum_ident, generics, where_clause, enum_body,
                   variants, arms, response>>

(***************************************************************************)
(* Everything up to the `enum` keyword (lib.rs 207-239)                    *)
(***************************************************************************)
\* The loop over the item's tokens: found says whether `enum` was reached,
\* out is what was pushed to output, rest is what is left of the iterator.
RECURSIVE SkipToEnum(_, _)
SkipToEnum(s, out) ==
    IF s = <<>> THEN [found |-> FALSE, out |-> out, rest |-> <<>>]
    ELSE IF IsPunct(Head(s), "#")
         THEN SkipToEnum(Rest(Tail(s)), out \o <<Head(s)>> \o Next1(Tail(s)))
         ELSE IF IsIdent(Head(s), "enum")
              THEN [found |-> TRUE, out |-> out \o <<Head(s)>>, rest |-> Tail(s)]
              ELSE SkipToEnum(Tail(s), out \o <<Head(s)>>)

FindEnum ==
    /\ pc = "header"
    /\ SkipToEnum(ts, output).found
    /\ output' = SkipToEnum(ts, output).out
    /\ ts' = SkipToEnum(ts, output).rest
    /\ pc' = "name"
    /\ UNCHANGED <<decl, previous, args, generate_doc_comments, compile_errors, enum_ident, generics,
                   where_clause, enum_body, variants, arms, response>>

\* the early return gives back what was skipped as well
MissingEnumResponseAfterOutput ==
    SkipToEnum(ts, output).out \o CompileError(call_site, MsgExpectedEnum)

\* the early return of line 209
MissingEnumResponse == CompileError(call_site, MsgExpectedEnum)

MissingEnum ==
    /\ pc = "header"
    /\ ~SkipToEnum(ts, output).found
    /\ output' = SkipToEnum(ts, output).out
    /\ ts' = <<>>
    /\ response' = MissingEnumResponse
    /\ pc' = "done"
    /\ UNCHANGED <<decl, previous, args, generate_doc_comments, compile_errors, enum_ident, generics,
                   where_clause, enum_body, variants, arms>>

(***************************************************************************)
(* Name and generics (lib.rs 244-282)                                      *)
(***************************************************************************)
\* The loop of lines 263-277 after the opening `<` has been taken: it ends
\* at the first `>`; when the iterator runs out it keeps calling next().
RECURSIVE GenericsLoop(_, _)
GenericsLoop(s, acc) ==
    IF s = <<>> THEN [ends |-> FALSE, generics |-> acc, rest |-> <<>>]
    ELSE IF IsPunct(Head(s), ">")
         THEN [ends |-> TRUE, generics |-> acc \o <<Head(s)>>, rest |-> Tail(s)]
         ELSE GenericsLoop(Tail(s), acc \o <<Head(s)>>)

Generics(s) ==
    IF s # <<>> /\ IsPunct(Head(s), "<")
    THEN GenericsLoop(Tail(s), <<Head(s)>>)
    ELSE [ends |-> TRUE, generics |-> <<>>, rest |-> s]

ParseName ==
    /\ pc = "name"
    /\ IF ts # <<>> /\ Head(ts).k = "ident"
       THEN /\ enum_ident' = <<Head(ts)>>
            /\ generics' = Generics(Tail(ts)).generics
            /\ ts' = Generics(Tail(ts)).rest
            /\ pc' = IF Generics(Tail(ts)).ends THEN "where" ELSE "diverge"
       ELSE /\ pc' = "panic"
            /\ ts' = Rest(ts)
            /\ UNCHANGED <<enum_ident, generics>>
    /\ UNCHANGED <<decl, previous, args, generate_doc_comments, compile_errors, output, where_clause,
                   enum_body, variants, arms, response>>

(***************************************************************************)
(* Where clause and body (lib.rs 286-315)                                  *)
(***************************************************************************)
\* The loop of lines 291-298 after `where` has been taken: it ends when a
\* brace group is next; when the iterator runs out it keeps calling next().
RECURSIVE WhereLoop(_, _)
WhereLoop(s, acc) ==
    IF s = <<>> THEN [ends |-> FALSE, where_clause |-> acc, rest |-> <<>>]
    ELSE IF IsGroup(Head(s), "brace")
         THEN [ends |-> TRUE, where_clause |-> acc, rest |-> s]
         ELSE WhereLoop(Tail(s), acc \o <<Head(s)>>)

WhereClause(s) ==
    IF s # <<>> /\ IsIdent(Head(s), "where")
    THEN WhereLoop(Tail(s), <<Head(s)>>)
    ELSE [ends |-> TRUE, where_clause |-> <<>>, rest |-> s]

ParseWhere ==
    /\ pc = "where"
    /\ where_clause' = WhereClause(ts).where_clause
    /\ IF ~WhereClause(ts).ends
       THEN /\ pc' = "diverge"
            /\ ts' = <<>>
            /\ UNCHANGED enum_body
       ELSE IF WhereClause(ts).rest # <<>> /\ IsGroup(Head(WhereClause(ts).rest), "brace")
            THEN /\ enum_body' = Head(WhereClause(ts).rest).g
                 /\ ts' = Tail(WhereClause(ts).rest)
                 /\ pc' = "variants"
            ELSE /\ pc' = "panic"
                 /\ ts' = Rest(WhereClause(ts).rest)
                 /\ UNCHANGED enum_body
    /\ UNCHANGED <<decl, previous, args, generate_doc_comments, compile_errors, output, enum_ident,
                   generics, variants, arms, response>>

(***************************************************************************)
(* Helpers of the variant loop                                             *)
(***************************************************************************)
Drop(s, n) == SubSeq(s, n + 1, Len(s))
Take(s, n) == SubSeq(s, 1, IF n < Len(s) THEN n ELSE Len(s))

\* tokens created by the macro
Joint(c) == Punct(c, "Joint", call_site)
New(s) == Ident(s, call_site)

\* lib.rs 344-357: the number of tokens the attribute loop moves from the
\* body to variants
RECURSIVE AttributeTokens(_)
AttributeTokens(body) ==
    IF body # <<>> /\ IsPunct(Head(body), "#")
    THEN (IF Len(body) >= 2 THEN 2 ELSE 1) + AttributeTokens(Drop(body, 2))
    ELSE 0

\* lib.rs 373-391: the number of tokens of the visibility
VisibilityTokens(body) ==
    IF body # <<>> /\ IsIdent(Head(body), "pub")
    THEN IF Len(body) >= 2 /\ IsGroup(body[2], "paren") THEN 2 ELSE 1
    ELSE 0

\* lib.rs 342-404: the start of one iteration.  attrs went to variants,
\* vis and ident (an Option, empty when the token there is no identifier)
\* to variant, rest is the body after the token taken for the identifier.
VariantStart(body) ==
    LET afterAttrs == Drop(body, AttributeTokens(body))
        afterVis == Drop(afterAttrs, VisibilityTokens(afterAttrs))
    IN  [attrs |-> Take(body, AttributeTokens(body)),
         vis |-> Take(afterAttrs, VisibilityTokens(afterAttrs)),
         ident |-> IF afterVis # <<>> /\ Head(afterVis).k = "ident"
                   THEN <<Head(afterVis)>> ELSE <<>>,
         rest |-> Rest(afterVis)]

\* CommaCount counting the trailing comma too
RECURSIVE CommaCountWithTrailing(_)
CommaCountWithTrailing(fields) ==
    IF fields = <<>> THEN 0
    ELSE (IF IsPunct(Head(fields), ",") THEN 1 ELSE 0) + CommaCountWithTrailing(Tail(fields))

\* lib.rs 426-439: the commas of a tuple variant that have a token after them
RECURSIVE CommaCount(_)
CommaCount(fields) ==
    IF fields = <<>> THEN 0
    ELSE (IF IsPunct(Head(fields), ",") /\ Tail(fields) # <<>> THEN 1 ELSE 0)
         + CommaCount(Tail(fields))

\* an empty group counts as one field
VariantCountNeverZero(fields) == 1 + CommaCount(fields)

\* lib.rs 417-445
VariantCount(fields) == IF fields = <<>> THEN 0 ELSE 1 + CommaCount(fields)

\* lib.rs 449-456: _i followed by a comma, for i from `from` below `count`
RECURSIVE TupleBindings(_, _)
TupleBindings(from, count) ==
    IF from >= count THEN <<>>
    ELSE <<New("_" \o ToString(from)), Joint(",")>> \o TupleBindings(from + 1, count)

\* lib.rs 449-460
TupleDestructure(fields) ==
    Group("paren", TupleBindings(0, VariantCount(fields)), call_site)

\* lib.rs 516-538: the token before a `:` seen outside a type is a field
RECURSIVE FieldScan(_, _, _)
FieldScan(fields, is_inside_type, destructure) ==
    IF Rest(fields) = <<>> THEN destructure
    ELSE IF IsPunct(Head(Rest(fields)), ":") /\ ~is_inside_type
         THEN FieldScan(Rest(fields), TRUE, destructure \o Next1(fields) \o <<Joint(",")>>)
         ELSE IF IsPunct(Head(Rest(fields)), ",") /\ is_inside_type
              THEN FieldScan(Rest(fields), FALSE, destructure)
              ELSE FieldScan(Rest(fields), is_inside_type, destructure)

\* lib.rs 507-542
StructDestructure(fields) == Group("brace", FieldScan(fields, FALSE, <<>>), call_site)

\* lib.rs 597: the pattern of a variant without a field group
UnitDestructure == Group("brace", <<>>, call_site)

\* lib.rs 796-808
doc_comment(content) ==
    <<Joint("#"),
      Group("bracket", <<New("doc"), Joint("="), LiteralString(content)>>, call_site)>>

\* A result of the extractors.  st is "ok", "err" or "panic"; rest is the
\* iterator afterwards.
Extracted(st, string, stream, error, rest) ==
    [st |-> st, string |-> string, stream |-> stream, error |-> error, rest |-> rest]

\* lib.rs 810-832
extract_string(s) ==
    IF s = <<>> THEN Extracted("panic", <<>>, <<>>, <<>>, <<>>)
    ELSE IF Head(s).k = "lit" THEN Extracted("ok", <<Head(s)>>, <<>>, <<>>, Tail(s))
    ELSE IF IsGroup(Head(s), "paren")
         THEN IF Head(s).g = <<>>
              THEN Extracted("err", <<>>, <<>>,
                       CompileError(Head(s).sp, MsgExpectedString), Tail(s))
              ELSE IF Head(Head(s).g).k = "lit"
                   THEN Extracted("ok", <<Head(Head(s).g)>>, Tail(Head(s).g), <<>>, Tail(s))
                   ELSE Extracted("err", <<>>, <<>>,
                            CompileError(Head(Head(s).g).sp, MsgExpectedString), Tail(s))
         ELSE Extracted("err", <<>>, <<>>,
                  CompileError(Head(s).sp, MsgExpectedString), Tail(s))

\* the missing discriminant is reported at the call site
extract_eq_string_at_call_site(s, variant_ident_span) ==
    IF s # <<>> /\ IsPunct(Head(s), "=")
    THEN extract_string(Tail(s))
    ELSE Extracted("err", <<>>, <<>>,
             CompileError(call_site, MsgExpectedDiscriminant), Rest(s))

\* lib.rs 776-793
extract_eq_string(s, variant_ident_span) ==
    IF s # <<>> /\ IsPunct(Head(s), "=")
    THEN extract_string(Tail(s))
    ELSE Extracted("err", <<>>, <<>>,
             CompileError(variant_ident_span, MsgExpectedDiscriminant), Rest(s))

\* ::core::name
CorePath(name) ==
    <<Joint(":"), Joint(":"), New("core"), Joint(":"), Joint(":"), New(name)>>

\* generate_arm with the literal alone in the invocation
generate_arm_without_stream(variant, destructure, string, stream) ==
    <<New("Self"), Joint(":"), Joint(":"), New(variant), destructure,
      Joint("="), Joint(">"), New("f"), Joint("."), New("write_fmt"),
      Group("paren",
          CorePath("format_args")
          \o <<Joint("!"), Group("paren", <<string>>, call_site)>>,
          call_site),
      Joint(",")>>

\* lib.rs 850-888
generate_arm(variant, destructure, string, stream) ==
    <<New("Self"), Joint(":"), Joint(":"), New(variant), destructure,
      Joint("="), Joint(">"), New("f"), Joint("."), New("write_fmt"),
      Group("paren",
          CorePath("format_args")
          \o <<Joint("!"), Group("paren", <<string>> \o stream, call_site)>>,
          call_site),
      Joint(",")>>

ArmTokens == 12

\* the failure branches push nothing
DummyArmForgotten(variant, destructure) == <<>>

\* the arm pushed when no template was extracted (lib.rs 478-483, 560-565,
\* 606-613, 640-647, 660-667)
DummyArm(variant, destructure) ==
    generate_arm(variant, destructure, LiteralString(<<>>), <<>>)

\* the arm pushed for the result r of an extractor
ArmFor(variant, destructure, r) ==
    IF r.st = "ok"
    THEN generate_arm(variant, destructure, r.string[1], r.stream)
    ELSE DummyArm(variant, destructure)

\* the doc attribute is made whether or not `doc` was asked for
DocForAlways(doc, r) ==
    IF r.st = "ok" THEN doc_comment(LiteralToString(r.string[1])) ELSE <<>>

\* lib.rs 466-468, 548-550, 589-591
DocFor(doc, r) ==
    IF r.st = "ok" /\ doc THEN doc_comment(LiteralToString(r.string[1])) ELSE <<>>

\* lib.rs 490-496, 572-578, 619-625: the comma after the variant, if it is next
TrailingComma(s) == IF s # <<>> /\ IsPunct(Head(s), ",") THEN <<Head(s)>> ELSE <<>>

\* the attributes of the variant are consumed and not pushed
CleanedVariantWithoutAttributes(attrs, doc, variant) == doc \o variant

\* What one iteration appends to variants: the attributes, the doc comment
\* and then the variant collected on the way (lib.rs 349-352, 467, 674).
CleanedVariant(attrs, doc, variant) == attrs \o doc \o variant

(***************************************************************************)
(* The variant loop (lib.rs 337-675): one action per kind of iteration     *)
(***************************************************************************)
Untouched ==
    UNCHANGED <<decl, previous, args, ts, generate_doc_comments, output, enum_ident, generics,
                where_clause, response>>

\* lib.rs 462-497 and 544-579: after the field group `fields` of a tuple or
\* struct variant, whose pattern is destructure
AfterFields(p, fields, destructure) ==
    LET r == extract_eq_string(Tail(p.rest), p.ident[1].sp)
    IN  IF r.st = "panic"
        THEN /\ pc' = "panic"
             /\ variants' = variants \o p.attrs
             /\ enum_body' = r.rest
             /\ UNCHANGED <<arms, compile_errors>>
        ELSE /\ pc' = "variants"
             /\ variants' = variants \o CleanedVariant(p.attrs,
                                DocFor(generate_doc_comments, r),
                                p.vis \o p.ident \o <<fields>> \o TrailingComma(r.rest))
             /\ arms' = arms \o ArmFor(p.ident[1].s, destructure, r)
             /\ compile_errors' = compile_errors \o r.error
             /\ enum_body' = Drop(r.rest, Len(TrailingComma(r.rest)))

\* lib.rs 413-497
VariantTuple ==
    /\ pc = "variants"
    /\ enum_body # <<>>
    /\ LET p == VariantStart(enum_body)
       IN  /\ p.ident # <<>>
           /\ p.rest # <<>>
           /\ IsGroup(Head(p.rest), "paren")
           /\ AfterFields(p, Head(p.rest), TupleDestructure(Head(p.rest).g))
    /\ Untouched

\* lib.rs 502-579
VariantStruct ==
    /\ pc = "variants"
    /\ enum_body # <<>>
    /\ LET p == VariantStart(enum_body)
       IN  /\ p.ident # <<>>
           /\ p.rest # <<>>
           /\ IsGroup(Head(p.rest), "brace")
           /\ AfterFields(p, Head(p.rest), StructDestructure(Head(p.rest).g))
    /\ Untouched

\* lib.rs 584-626
VariantUnit ==
    /\ pc = "variants"
    /\ enum_body # <<>>
    /\ LET p == VariantStart(enum_body)
       IN  /\ p.ident # <<>>
           /\ p.rest # <<>>
           /\ IsPunct(Head(p.rest), "=")
           /\ LET r == extract_string(Tail(p.rest))
              IN  IF r.st = "panic"
                  THEN /\ pc' = "panic"
                       /\ variants' = variants \o p.attrs
                       /\ enum_body' = r.rest
                       /\ UNCHANGED <<arms, compile_errors>>
                  ELSE /\ pc' = "variants"
                       /\ variants' = variants \o CleanedVariant(p.attrs,
                                          DocFor(generate_doc_comments, r),
                                          p.vis \o p.ident \o TrailingComma(r.rest))
                       /\ arms' = arms \o ArmFor(p.ident[1].s, UnitDestructure, r)
                       /\ compile_errors' = compile_errors \o r.error
                       /\ enum_body' = Drop(r.rest, Len(TrailingComma(r.rest)))
    /\ Untouched

\* lib.rs 631-648
VariantComma ==
    /\ pc = "variants"
    /\ enum_body # <<>>
    /\ LET p == VariantStart(enum_body)
       IN  /\ p.ident # <<>>
           /\ p.rest # <<>>
           /\ IsPunct(Head(p.rest), ",")
           /\ variants' = variants \o CleanedVariant(p.attrs, <<>>,
                              p.vis \o p.ident \o <<Head(p.rest)>>)
           /\ compile_errors' = compile_errors
                                \o CompileError(p.ident[1].sp, MsgExpectedDiscriminant)
           /\ arms' = arms \o DummyArm(p.ident[1].s, UnitDestructure)
           /\ enum_body' = Tail(p.rest)
           /\ pc' = "variants"
    /\ Untouched

\* lib.rs 653-670: the identifier is the last token of the body; the
\* iteration leaves the loop before line 674
VariantLast ==
    /\ pc = "variants"
    /\ enum_body # <<>>
    /\ LET p == VariantStart(enum_body)
       IN  /\ p.ident # <<>>
           /\ p.rest = <<>>
           /\ variants' = variants \o p.attrs
           /\ compile_errors' = compile_errors
                                \o CompileError(p.ident[1].sp, MsgExpectedDiscriminant)
           /\ arms' = arms \o DummyArm(p.ident[1].s, UnitDestructure)
           /\ enum_body' = <<>>
           /\ pc' = "emit"
    /\ Untouched

\* lib.rs 403 and 671: the two unreachable!() of the loop
VariantUnreachable ==
    /\ pc = "variants"
    /\ enum_body # <<>>
    /\ LET p == VariantStart(enum_body)
       IN  /\ \/ p.ident = <<>>
              \/ /\ p.rest # <<>>
                 /\ ~IsGroup(Head(p.rest), "paren")
                 /\ ~IsGroup(Head(p.rest), "brace")
                 /\ ~IsPunct(Head(p.rest), "=")
                 /\ ~IsPunct(Head(p.rest), ",")
           /\ variants' = variants \o p.attrs
           /\ enum_body' = Rest(p.rest)
           /\ pc' = "panic"
    /\ UNCHANGED <<arms, compile_errors>>
    /\ Untouched

(***************************************************************************)
(* The result (lib.rs 677-763)                                             *)
(***************************************************************************)
\* lib.rs 678-683
original_enum(out, ident, gen, wh, vs) ==
    out \o <<ident>> \o gen \o wh \o <<Group("brace", vs, call_site)>>

\* lib.rs 698-758
display_impl(ident, arm_tokens) ==
    <<New("impl")>> \o CorePath("fmt") \o <<Joint(":"), Joint(":"), New("Display"),
      New("for"), ident,
      Group("brace",
          <<New("fn"), New("fmt"),
            Group("paren",
                <<Joint("&"), New("self"), Joint(","), New("f"), Joint(":"), Joint("&"),
                  New("mut")>> \o CorePath("fmt")
                \o <<Joint(":"), Joint(":"), New("Formatter")>>,
                call_site),
            Joint("-"), Joint(">")>> \o CorePath("fmt")
          \o <<Joint(":"), Joint(":"), New("Result"),
               Group("brace",
                   <<New("match"), New("self"), Group("brace", arm_tokens, call_site)>>,
                   call_site)>>,
          call_site)>>

\* the diagnostics are put after the impl
ChainErrorsLast(declaration, errors, implementation) ==
    declaration \o implementation \o errors

\* lib.rs 760-763
Chain(declaration, errors, implementation) == declaration \o errors \o implementation

Emit ==
    /\ \/ pc = "emit"
       \/ pc = "variants" /\ enum_body = <<>>
    /\ response' = Chain(original_enum(output, enum_ident[1], generics, where_clause, variants),
                         compile_errors,
                         display_impl(enum_ident[1], arms))
    /\ pc' = "done"
    /\ UNCHANGED <<decl, previous, args, ts, generate_doc_comments, compile_errors, output, enum_ident,
                   generics, where_clause, enum_body, variants, arms>>

Next ==
    \/ ParseArgs
    \/ FindEnum
    \/ MissingEnum
    \/ ParseName
    \/ ParseWhere
    \/ VariantTuple
    \/ VariantStruct
    \/ VariantUnit
    \/ VariantComma
    \/ VariantLast
    \/ VariantUnreachable
    \/ Emit

Spec == Init /\ [][Next]_vars

TypeOK ==
    /\ pc \in {"args", "header", "name", "where", "variants", "emit", "done", "panic",
               "diverge"}
    /\ generate_doc_comments \in BOOLEAN
    /\ Len(arms) % ArmTokens = 0

(***************************************************************************)
(* Reading the response                                                    *)
(***************************************************************************)
NumVariants == Len(decl.variants)

\* the invocation ran to the end of `display` on an enum
Emitted == pc = "done" /\ enum_ident # <<>>

Last(s) == s[Len(s)]

\* the brace group of the generated match
MatchArms == Last(Last(response).g).g[3].g

ArmAt(i) == SubSeq(MatchArms, ArmTokens * (i - 1) + 1, ArmTokens * i)
ArmVariant(arm) == arm[4].s
ArmPattern(arm) == arm[5]
\* the tokens between the parentheses of format_args!
ArmInvocation(arm) == arm[11].g[8].g

\* the identifiers a pattern binds: every second token, the others are commas
PatternNames(pattern) == [n \in 1..(Len(pattern.g) \div 2) |-> pattern.g[2 * n - 1].s]

\* the brace group of the cleaned declaration
CleanedBody == response[Len(HeaderTokens(decl.header)) + 1].g

\* the template of variant i is rejected: there is none, or what follows
\* `=` is not accepted as one
ExtractionFails(i) ==
    LET t == TemplateOf(decl.variants[i].tmpl, i).toks
    IN  t = <<>> \/ extract_string(Tail(t)).st = "err"

WellFormed(i) == TemplateOf(decl.variants[i].tmpl, i).wellformed

\* the body with nothing but the templates removed
RECURSIVE KeptFrom(_, _, _)
KeptFrom(list, i, trailing) ==
    IF i > Len(list) THEN <<>>
    ELSE VariantKept(list[i], i)
         \o (IF i < Len(list) \/ trailing THEN <<Comma(i)>> ELSE <<>>)
         \o KeptFrom(list, i + 1, trailing)

C2_CleanedIsInputWithoutTemplates ==
    (Emitted /\ ~generate_doc_comments /\ \A i \in 1..NumVariants : WellFormed(i)) =>
        CleanedBody = KeptFrom(decl.variants, 1, decl.trailing)

\* such an enum with attributes, a visibility and a field group on a
\* variant has been emitted
C2_Witness ==
    /\ Emitted
    /\ ~generate_doc_comments
    /\ NumVariants = 2
    /\ \A i \in 1..NumVariants : WellFormed(i)
    /\ \E i \in 1..NumVariants :
          decl.variants[i].pre = "vis" /\ decl.variants[i].fields = "n2c"

\* the declared shape of variant i
Declared(i) == FieldsOf(decl.variants[i].fields, i)

\* C3: the arm of a named-field variant binds exactly the declared field
\* names, in declaration order.
C3_NamedBindingsAreFieldNames ==
    Emitted =>
        \A i \in 1..NumVariants :
            Declared(i).d = "brace" =>
                PatternNames(ArmPattern(ArmAt(i))) = Declared(i).names

\* _0, _1, ... for n fields
PositionalNames(n) == [k \in 1..n |-> "_" \o ToString(k - 1)]

\* C4: the arm of a tuple variant binds _0, _1, ... , one per declared
\* field.
C4_PositionalBindingsMatchFields ==
    Emitted =>
        \A i \in 1..NumVariants :
            Declared(i).d = "paren" =>
                /\ IsGroup(ArmPattern(ArmAt(i)), "paren")
                /\ PatternNames(ArmPattern(ArmAt(i))) = PositionalNames(Declared(i).n)

\* a token of the input that is no separator of variants
IsInputToken(t) == t.sp # call_site /\ ~IsPunct(t, ",")

RECURSIVE KeptTokens(_, _)
KeptTokens(list, i) ==
    IF i > Len(list) THEN <<>> ELSE VariantKept(list[i], i) \o KeptTokens(list, i + 1)

\* the variant identifiers among the top-level tokens of a stream
VariantIdents(stream) ==
    {p \in 1..Len(stream) : \E i \in 1..NumVariants : stream[p] = VariantIdent(i)}

\* C5: the cleaned declaration holds every variant of the input once, with
\* its attributes, visibility, identifier and field group, in input order,
\* and so as many variants as the routine has arms.
C5_EveryVariantKept ==
    Emitted =>
        /\ SelectSeq(CleanedBody, IsInputToken) = KeptTokens(decl.variants, 1)
        /\ Cardinality(VariantIdents(CleanedBody)) * ArmTokens = Len(MatchArms)

\* a doc attribute made by the macro
IsGeneratedDoc(t) ==
    /\ IsGroup(t, "bracket")
    /\ t.sp = call_site
    /\ Len(t.g) = 3
    /\ IsIdent(t.g[1], "doc")
    /\ IsPunct(t.g[2], "=")

\* where the tokens of variant i end in the cleaned body when they are
\* looked for up to its identifier
RECURSIVE SegmentEnd(_)
SegmentEnd(i) ==
    IF i = 0 THEN 0
    ELSE IF \E p \in 1..Len(CleanedBody) : CleanedBody[p] = VariantIdent(i)
         THEN CHOOSE p \in 1..Len(CleanedBody) : CleanedBody[p] = VariantIdent(i)
         ELSE Len(CleanedBody)

\* the doc attributes the macro put before the identifier of variant i
DocsOf(i) ==
    SelectSeq(SubSeq(CleanedBody, SegmentEnd(i - 1) + 1, SegmentEnd(i)), IsGeneratedDoc)

\* C6: with doc set, a variant whose template is extracted gets one doc
\* attribute whose text is the text of the template literal, and a variant
\* whose template is rejected gets none; without doc no variant gets one.
C6_DocTextIsTemplateText ==
    Emitted =>
        \A i \in 1..NumVariants :
            IF generate_doc_comments /\ WellFormed(i)
            THEN /\ Len(DocsOf(i)) = 1
                 /\ IsStringLiteral(DocsOf(i)[1].g[3])
                 /\ StringValue(DocsOf(i)[1].g[3])
                        = StringValue(TemplateOf(decl.variants[i].tmpl, i).lit[1])
            ELSE (~generate_doc_comments \/ ExtractionFails(i)) => DocsOf(i) = <<>>

\* the k-th diagnostic pushed to compile_errors
Diagnostic(k) == SubSeq(compile_errors, 3 * k - 2, 3 * k)

Occurs(tokens, stream) ==
    \E p \in 1..Len(stream) :
        p + Len(tokens) - 1 <= Len(stream) /\ SubSeq(stream, p, p + Len(tokens) - 1) = tokens

\* C7: whatever is returned, every diagnostic recorded on the way is in it.
C7_EveryDiagnosticReturned ==
    pc = "done" =>
        \A k \in 1..(Len(compile_errors) \div 3) : Occurs(Diagnostic(k), response)

\* the positions of the response where a diagnostic at a token of variant i
\* starts
DiagnosticsOf(i) ==
    {p \in 1..Len(response) :
        /\ IsIdent(response[p], "compile_error")
        /\ response[p].sp[1] = i}

\* the three tokens at p report message at span
IsDiagnostic(p, span, message) ==
    /\ p + 2 <= Len(response)
    /\ response[p] = Ident("compile_error", span)
    /\ IsPunct(response[p + 1], "!") /\ response[p + 1].sp = span
    /\ IsGroup(response[p + 2], "brace") /\ response[p + 2].sp = span
    /\ Len(response[p + 2].g) = 1
    /\ IsStringLiteral(response[p + 2].g[1])
    /\ response[p + 2].g[1].sp = span
    /\ StringValue(response[p + 2].g[1]) = message

EmptyTemplate == <<Literal(<<Quote, Quote>>, call_site)>>

\* C8: a variant without `=` gives exactly one diagnostic, the missing
\* discriminant one at the identifier of the variant, and its arm with the
\* empty template is in the routine.
C8_MissingDiscriminantReported ==
    Emitted =>
        \A i \in 1..NumVariants :
            decl.variants[i].tmpl = "none" =>
                /\ Cardinality(DiagnosticsOf(i)) = 1
                /\ \A p \in DiagnosticsOf(i) :
                      IsDiagnostic(p, SpanOf(i, RoleIdent), MsgExpectedDiscriminant)
                /\ ArmVariant(ArmAt(i)) = VariantName(i)
                /\ ArmInvocation(ArmAt(i)) = EmptyTemplate

\* a tuple variant without `=` followed by a last unit variant without `=`
\* and without comma has been emitted
C8_Witness ==
    /\ Emitted
    /\ NumVariants = 2
    /\ decl.variants[1].fields = "p1" /\ decl.variants[1].tmpl = "none"
    /\ decl.variants[2].fields = "unit" /\ decl.variants[2].tmpl = "none"
    /\ ~decl.trailing

\* the number of top-level tokens of the generated impl
ImplTokens == 13

\* C9: when `enum` is found the response is the header as given (with name,
\* generics and where clause), the brace group of the variants, the
\* diagnostics in the order they were recorded, and the impl with the arms.
C9_ResponseOrder ==
    Emitted =>
        LET n == Len(HeaderTokens(decl.header))
            e == Len(compile_errors)
        IN  /\ Len(response) = n + 1 + e + ImplTokens
            /\ SubSeq(response, 1, n) = HeaderTokens(decl.header)
            /\ IsGroup(response[n + 1], "brace")
            /\ response[n + 1].g = variants
            /\ SubSeq(response, n + 2, n + 1 + e) = compile_errors
            /\ \A k \in 1..(e \div 3) :
                  /\ IsIdent(response[n + 3 * k - 1], "compile_error")
                  /\ IsPunct(response[n + 3 * k], "!")
                  /\ IsGroup(response[n + 3 * k + 1], "brace")
            /\ e % 3 = 0
            /\ IsIdent(response[n + e + 2], "impl")
            /\ IsIdent(response[n + e + ImplTokens - 1], "for")
            /\ response[n + e + ImplTokens].s = "E"
            /\ IsGroup(Last(response), "brace")
            /\ MatchArms = arms

\* an enum with attributes, generics and a where clause has been emitted
\* with two diagnostics
C9_Witness ==
    /\ Emitted
    /\ decl.header = "full"
    /\ NumVariants = 2
    /\ Len(compile_errors) = 6

\* no top-level token of the item is `enum`
NoEnumKeyword == \A p \in 1..Len(ItemTokens(decl)) : ~IsIdent(ItemTokens(decl)[p], "enum")

\* C10: for an item without `enum` the response is the one diagnostic
\* "expected an enum item" at the call site and nothing else.
C10_MissingEnumOnly ==
    (pc = "done" /\ NoEnumKeyword) =>
        /\ Len(response) = 3
        /\ IsDiagnostic(1, call_site, MsgExpectedEnum)

\* a struct has been answered
C10_Witness ==
    /\ pc = "done"
    /\ NoEnumKeyword
    /\ output # <<>>
    /\ response # <<>>

\* the arguments the macro was called with
GivenArgs == ArgTokens(decl.args)

\* the arguments have just been read and what is reported is one
\* "unexpected token" at the given token
UnexpectedTokenAt(t) == compile_errors = CompileError(t.sp, MsgUnexpectedToken)

\* C11 as stated: after the arguments are read, none gives flag false and no
\* diagnostic, `doc` alone gives flag true and no diagnostic, and another
\* leading token or a token after `doc` gives "unexpected token" and flag
\* false.
C11_UnexpectedTokenClearsFlag ==
    pc = "header" =>
        IF GivenArgs = <<>> THEN ~generate_doc_comments /\ compile_errors = <<>>
        ELSE IF GivenArgs = <<Ident("doc", GivenArgs[1].sp)>>
        THEN generate_doc_comments /\ compile_errors = <<>>
        ELSE /\ ~generate_doc_comments
             /\ \E k \in 1..Len(GivenArgs) : UnexpectedTokenAt(GivenArgs[k])

\* C11: after the arguments are read, none gives flag false and no
\* diagnostic, `doc` alone gives flag true and no diagnostic, another
\* leading token gives "unexpected token" at it and flag false, and a token
\* after `doc` gives "unexpected token" at it while the flag is true.
C11_ModifierParser ==
    pc = "header" =>
        IF GivenArgs = <<>> THEN ~generate_doc_comments /\ compile_errors = <<>>
        ELSE IF ~IsIdent(GivenArgs[1], "doc")
        THEN ~generate_doc_comments /\ UnexpectedTokenAt(GivenArgs[1])
        ELSE /\ generate_doc_comments
             /\ IF Len(GivenArgs) = 1 THEN compile_errors = <<>>
                ELSE UnexpectedTokenAt(GivenArgs[2])

\* `doc` followed by another token has been read
C11_Witness ==
    /\ pc = "header"
    /\ Len(GivenArgs) = 2
    /\ IsIdent(GivenArgs[1], "doc")
    /\ generate_doc_comments
    /\ compile_errors # <<>>

\* what follows `=` in variant i of the input
AfterEq(i) == Tail(TemplateOf(decl.variants[i].tmpl, i).toks)

\* C12: the invocation in the arm of a variant with a parenthesized
\* template holds the tokens between the parentheses, the literal first, as
\* they are in the input; that of a variant with a bare string literal
\* holds the literal alone.
C12_InvocationIsTemplateInterior ==
    Emitted =>
        \A i \in 1..NumVariants :
            WellFormed(i) =>
                IF IsGroup(AfterEq(i)[1], "paren")
                THEN ArmInvocation(ArmAt(i)) = AfterEq(i)[1].g
                ELSE ArmInvocation(ArmAt(i)) = AfterEq(i)

\* a parenthesized template with extra arguments and a bare literal have
\* been emitted
C12_Witness ==
    /\ Emitted
    /\ NumVariants = 2
    /\ \E i, j \in 1..NumVariants :
          /\ decl.variants[i].tmpl = "args"
          /\ Len(ArmInvocation(ArmAt(i))) = 1 + Len(ArgsExtra(i))
          /\ decl.variants[j].tmpl = "str"
          /\ Len(ArmInvocation(ArmAt(j))) = 1

\* the field groups written without and with a trailing comma, and what
\* their arms bind
TrailingPairs ==
    {<<"p1", "p1c", <<"_0">>>>, <<"p2", "p2c", <<"_0", "_1">>>>, <<"n1", "n1c", <<"first">>>>}

\* the pattern binds exactly the given names, each followed by a comma
BindsExactly(pattern, d, names) ==
    /\ IsGroup(pattern, d)
    /\ Len(pattern.g) = 2 * Len(names)
    /\ PatternNames(pattern) = names
    /\ \A n \in 1..Len(names) : IsPunct(pattern.g[2 * n], ",")

\* C13: V(T) and V(T,) both get the pattern binding exactly _0, V(T, U) and
\* V(T, U,) the one binding exactly _0, _1, and { f: T } and { f: T, } the
\* one binding exactly f.
C13_TrailingSeparatorInsensitive ==
    Emitted =>
        \A i \in 1..NumVariants : \A pair \in TrailingPairs :
            decl.variants[i].fields \in {pair[1], pair[2]} =>
                BindsExactly(ArmPattern(ArmAt(i)), Declared(i).d, pair[3])

\* a variant whose field group ends with a comma has been emitted
C13_Witness ==
    /\ Emitted
    /\ \E i \in 1..NumVariants :
          /\ decl.variants[i].fields \in {"p1c", "p2c", "n1c"}
          /\ IsPunct(Last(Declared(i).toks), ",")
          /\ ArmPattern(ArmAt(i)).g # <<>>

(***************************************************************************)
(* A second invocation on the cleaned declaration of the first             *)
(***************************************************************************)
\* the declaration at the front of the response
CleanedDeclaration ==
    SubSeq(response, 1,
        Len(output) + Len(enum_ident) + Len(generics) + Len(where_clause) + 1)

\* what follows the k-th variant of the input from `=` on
TemplateTokens(k) ==
    IF k <= NumVariants THEN TemplateOf(decl.variants[k].tmpl, k).toks ELSE <<>>

\* The tokens of a body with the template of the k-th variant of the input
\* put back after the k-th variant: before the comma that ends it, or at the
\* end of the body.  current holds the tokens of the k-th variant read so
\* far.
RECURSIVE Reattach(_, _, _)
Reattach(body, k, current) ==
    IF body = <<>>
    THEN IF current = <<>> THEN <<>> ELSE current \o TemplateTokens(k)
    ELSE IF IsPunct(Head(body), ",")
         THEN current \o TemplateTokens(k) \o <<Head(body)>> \o Reattach(Tail(body), k + 1, <<>>)
         ELSE Reattach(Tail(body), k, current \o <<Head(body)>>)

\* a declaration with the templates of the input put back
Reattached(declaration) ==
    SubSeq(declaration, 1, Len(declaration) - 1)
    \o <<Group("brace", Reattach(Last(declaration).g, 1, <<>>), Last(declaration).sp)>>

\* `display` is invoked again, with the same arguments, on the cleaned
\* declaration it returned for an input whose templates are all well-formed
Again ==
    /\ Emitted
    /\ previous = <<>>
    /\ \A i \in 1..NumVariants : WellFormed(i)
    /\ previous' = CleanedDeclaration
    /\ pc' = "args"
    /\ args' = ArgTokens(decl.args)
    /\ ts' = Reattached(CleanedDeclaration)
    /\ generate_doc_comments' = FALSE
    /\ compile_errors' = <<>>
    /\ output' = <<>>
    /\ enum_ident' = <<>>
    /\ generics' = <<>>
    /\ where_clause' = <<>>
    /\ enum_body' = <<>>
    /\ variants' = <<>>
    /\ arms' = <<>>
    /\ response' = <<>>
    /\ UNCHANGED decl

NextRoundTrip == Next \/ Again

SpecRoundTrip == Init /\ [][NextRoundTrip]_vars

\* C14 as stated: whatever the arguments, the second invocation returns the
\* cleaned declaration the first one returned.
C14_RoundTripAnyRequest ==
    (Emitted /\ previous # <<>>) => CleanedDeclaration = previous

\* C14: when the arguments do not turn doc on, the second invocation
\* returns the cleaned declaration the first one returned.
C14_RoundTripWithoutDoc ==
    (Emitted /\ previous # <<>> /\ ~generate_doc_comments) => CleanedDeclaration = previous

\* the second invocation has returned for a two-variant enum with
\* attributes, a visibility and a field group on a variant, doc being off
C14_Witness ==
    /\ Emitted
    /\ previous # <<>>
    /\ ~generate_doc_comments
    /\ NumVariants = 2
    /\ \E i \in 1..NumVariants :
          decl.variants[i].pre = "vis" /\ decl.variants[i].fields = "n2c"

\* variant i of the input has `=` and what follows it is rejected
RejectedAfterEq(i) ==
    /\ TemplateTokens(i) # <<>>
    /\ extract_string(AfterEq(i)).st = "err"

\* the arm of variant i has been made
ArmMade(i) == Len(arms) >= ArmTokens * i

\* C15: once a variant whose template is rejected has got its default arm,
\* the invocation does not stop before the end of the body, whatever the
\* rejected tokens are: it does not panic, and it returns with the
\* diagnostic of that variant and one arm for every variant.
C15_FailedExtractionNeverAborts ==
    \A i \in 1..NumVariants :
        (RejectedAfterEq(i) /\ ArmMade(i)) =>
            /\ pc # "panic"
            /\ Occurs(extract_string(AfterEq(i)).error, compile_errors)
            /\ pc = "done" =>
                  /\ Len(MatchArms) = ArmTokens * NumVariants
                  /\ \A k \in 1..NumVariants : ArmVariant(ArmAt(k)) = VariantName(k)
                  /\ ArmInvocation(ArmAt(i)) = EmptyTemplate

\* a template as C16 has it: a string literal, or a parenthesized group
\* whose first token is a string literal
IsTemplate(t) ==
    \/ IsStringLiteral(t)
    \/ IsGroup(t, "paren") /\ t.g # <<>> /\ IsStringLiteral(t.g[1])

\* where a rejected template is reported: at the first token of a
\* parenthesized group that has one, else at the token itself
RejectedAt(t) == IF IsGroup(t, "paren") /\ t.g # <<>> THEN t.g[1].sp ELSE t.sp

\* C16: of a variant with `=`, what follows is accepted exactly when it is
\* a string literal or a parenthesized group starting with one; then
\* nothing is reported for the variant, and otherwise (an integer literal
\* included) the one diagnostic of the variant is "expected string literal"
\* and its arm is the default one.
C16_OnlyStringLiteralsAccepted ==
    Emitted =>
        \A i \in 1..NumVariants :
            TemplateTokens(i) # <<>> =>
                IF IsTemplate(AfterEq(i)[1])
                THEN /\ DiagnosticsOf(i) = {}
                     /\ ArmInvocation(ArmAt(i)) # EmptyTemplate
                ELSE /\ Cardinality(DiagnosticsOf(i)) = 1
                     /\ \A p \in DiagnosticsOf(i) :
                           IsDiagnostic(p, RejectedAt(AfterEq(i)[1]), MsgExpectedString)
                     /\ ArmInvocation(ArmAt(i)) = EmptyTemplate

\* variant i of the input has a field group, no `=`, and a comma after it
FieldGroupThenComma(i) ==
    /\ Declared(i).d # "none"
    /\ TemplateTokens(i) = <<>>
    /\ i < NumVariants \/ decl.trailing

\* C17: a variant with a field group and no `=` keeps the comma that
\* follows it: in the cleaned declaration its field group is followed by
\* that comma.
C17_CommaAfterFieldGroupKept ==
    Emitted =>
        \A i \in 1..NumVariants :
            FieldGroupThenComma(i) =>
                \E p \in 1..(Len(CleanedBody) - 2) :
                    /\ CleanedBody[p] = VariantIdent(i)
                    /\ IsGroup(CleanedBody[p + 1], Declared(i).d)
                    /\ CleanedBody[p + 2] = Comma(i)

\* the commas of a token list that are not its last token
InnerCommas(toks) == {p \in 1..(Len(toks) - 1) : IsPunct(toks[p], ",")}

\* the field count of C18 for the tokens between the parentheses
CountedFields(toks) == IF toks = <<>> THEN 0 ELSE 1 + Cardinality(InnerCommas(toks))

\* C18: the arm of a tuple variant has a parenthesized pattern binding
\* exactly _0 ... _(n-1), in this order, where n is 0 for an empty group
\* and else 1 plus the number of commas of the group that have a token
\* after them; for V() the pattern is empty.
C18_PositionalCount ==
    Emitted =>
        \A i \in 1..NumVariants :
            Declared(i).d = "paren" =>
                /\ BindsExactly(ArmPattern(ArmAt(i)), "paren",
                       PositionalNames(CountedFields(Declared(i).toks)))
                /\ Declared(i).toks = <<>> => ArmPattern(ArmAt(i)).g = <<>>

\* V() has been emitted next to V(T)
C18_Witness ==
    /\ Emitted
    /\ NumVariants = 2
    /\ \E i, j \in 1..NumVariants :
          /\ decl.variants[i].fields = "p1"
          /\ decl.variants[j].fields = "p0"
          /\ ArmPattern(ArmAt(j)).g = <<>>
          /\ Len(ArmPattern(ArmAt(i)).g) = 2

\* C19: when the name is followed by `<`, the generics taken are the whole
\* parameter list, up to the `>` that closes it, nested pairs counted, and
\* the token seen next is `where` or the brace group of the body.
C19_GenericsToMatchingClose ==
    (pc = "where" /\ HeaderGenerics(decl.header) # <<>>) =>
        /\ generics = HeaderGenerics(decl.header)
        /\ ts # <<>>
        /\ IsIdent(Head(ts), "where") \/ IsGroup(Head(ts), "brace")

\* C20: no invocation comes to a loop that goes on without end: the
\* generics loop and the where-clause loop stop when the tokens run out.
C20_EveryLoopStops == pc # "diverge"

====
